---- MODULE Spec2Model ----
(***************************************************************************)
(* Ink request manager: the relational store (users, ink types, ink stock, *)
(* user ink assignments, ink requests) and the server handlers that act on *)
(* it.  Every database statement of a handler is an operator on the tables *)
(* it reads or writes; a handler run to completion is the composition of   *)
(* its statements (Spec), and under concurrent calls each awaited          *)
(* statement is one step of the calling process (SpecConc).                *)
(***************************************************************************)
EXTENDS Integers, Sequences, FiniteSets, TLC

\* ------------------------------------------------------------------ bounds
MaxQty == 2          \* quantities (requested, approved, caps, stock) range over 0..MaxQty
MaxRequests == 1     \* rows the ink_requests table may hold (Spec, SpecAssign)
MaxConcRequests == 2 \* rows the ink_requests table may hold (SpecConc)
MaxAssignmentId == 2 \* last value the user_ink_assignments serial may hand out
MaxInkTypeId == 3    \* last value the ink_types serial may hand out
MaxStockId == 4      \* last value the ink_stock serial may hand out

\* ------------------------------------------------------------------ values
NULL == 0 - 1        \* SQL NULL / JS null in an integer column
UNDEFINED == 0 - 2   \* an optional input field the caller omitted
NULLTEXT == "null"   \* SQL NULL in a text or timestamp column
NOW == "now"         \* the value of new Date() / defaultNow()

UserIdInputs == {1, 2, 3}     \* 3 references no account
InkTypeIdInputs == {1, 2, 3}  \* 3 references no ink type until createInkType stores it
Quantities == 1..MaxQty
TextInputs == {NULLTEXT, "text"}

VARIABLES
    users,        \* usersTable: set of rows (id, username, email, role)
    inkTypes,     \* inkTypesTable: set of ids of the stored ink types
    stock,        \* inkStockTable: set of rows
    assignments,  \* userInkAssignmentsTable: set of rows
    requests,     \* inkRequestsTable: sequence of rows, row i has id i (never deleted)
    serial,       \* next value of the serial id of assignments, stock rows and ink types
    calls,        \* the concurrent calls in flight (SpecConc): process -> call frame
    result        \* what the last completed call returned or threw

tables == <<users, inkTypes, stock, assignments, requests, serial>>
vars == <<users, inkTypes, stock, assignments, requests, serial, calls, result>>

\* ------------------------------------------------------------------ store
UserIds == {u.id : u \in users}

\* select().from(userInkAssignmentsTable).where(user_id = u and ink_type_id = t)
SelectAssignment(asg, u, t) == {a \in asg : a.user_id = u /\ a.ink_type_id = t}

\* select().from(userInkAssignmentsTable).where(id = a)
SelectAssignmentById(asg, id) == {a \in asg : a.id = id}

\* select().from(inkRequestsTable).where(id = request_id)
SelectRequest_NearestId(reqs, id) ==
    IF id \in DOMAIN reqs THEN {reqs[id]}
    ELSE IF id - 1 \in DOMAIN reqs THEN {reqs[id - 1]} ELSE {}

SelectRequest(reqs, id) == IF id \in DOMAIN reqs THEN {reqs[id]} ELSE {}

\* select().from(inkStockTable).where(ink_type_id = t)
SelectStock(stk, t) == {s \in stk : s.ink_type_id = t}

\* The row a freshly inserted request holds: the columns createInkRequest
\* gives, the rest at the defaults of the table definition.
NewRequestRow_NoReason(id, userId, input) ==
    [id |-> id, user_id |-> userId, ink_type_id |-> input.ink_type_id,
     requested_quantity |-> input.requested_quantity,
     approved_quantity |-> NULL, status |-> "pending",
     request_reason |-> NULLTEXT, admin_notes |-> NULLTEXT,
     reviewed_by_admin_id |-> NULL, requested_at |-> NOW, reviewed_at |-> NULLTEXT]

NewRequestRow(id, userId, input) ==
    [id |-> id, user_id |-> userId, ink_type_id |-> input.ink_type_id,
     requested_quantity |-> input.requested_quantity,
     approved_quantity |-> NULL, status |-> "pending",
     request_reason |-> input.request_reason, admin_notes |-> NULLTEXT,
     reviewed_by_admin_id |-> NULL, requested_at |-> NOW, reviewed_at |-> NULLTEXT]

\* The foreign keys of ink_requests: user_id and reviewed_by_admin_id
\* reference users.id, ink_type_id references ink_types.id.
RequestForeignKeysHold(row, us, types) ==
    /\ row.user_id \in {u.id : u \in us}
    /\ row.ink_type_id \in types
    /\ row.reviewed_by_admin_id = NULL \/ row.reviewed_by_admin_id \in {u.id : u \in us}

\* ------------------------------------------------------------------ createInkRequest
\* if (assignment.length === 0) throw
NotAssigned_AnyInkType(asg, userId, input) ==
    {a \in asg : a.user_id = userId} = {}

NotAssigned(asg, userId, input) ==
    SelectAssignment(asg, userId, input.ink_type_id) = {}

\* if (input.requested_quantity > assignment[0].max_quantity_per_request) throw
ExceedsMaximum_Inclusive(input, assignment) ==
    input.requested_quantity >= assignment.max_quantity_per_request

ExceedsMaximum(input, assignment) ==
    input.requested_quantity > assignment.max_quantity_per_request

\* The runs of createInkRequest(userId, input) from the current store: what
\* each leaves in the request table and what it returns or throws.
\* assignment[0] is any row of the select when it returns several.
createInkRequestRuns(userId, input) ==
    IF NotAssigned(assignments, userId, input)
    THEN {[requests |-> requests, outcome |-> "PermissionDenied"]}
    ELSE {IF ExceedsMaximum(input, assignment)
          THEN [requests |-> requests, outcome |-> "QuotaExceeded"]
          ELSE IF RequestForeignKeysHold(
                     NewRequestRow(Len(requests) + 1, userId, input), users, inkTypes)
               THEN [requests |-> Append(requests,
                                     NewRequestRow(Len(requests) + 1, userId, input)),
                     outcome |-> "ok"]
               ELSE [requests |-> requests, outcome |-> "ForeignKeyViolation"]
          : assignment \in SelectAssignment(assignments, userId, input.ink_type_id)}

createInkRequest(userId, input) ==
    /\ \E run \in createInkRequestRuns(userId, input) :
         /\ requests' = run.requests
         /\ result' = [op |-> "createInkRequest", outcome |-> run.outcome]
    /\ UNCHANGED <<users, inkTypes, stock, assignments, serial, calls>>

\* ------------------------------------------------------------------ getPendingInkRequests
\* select().from(inkRequestsTable).innerJoin(usersTable, user_id = users.id)
\*     .innerJoin(inkTypesTable, ink_type_id = ink_types.id).where(status = 'pending')
getPendingInkRequests_NotApproved(reqs, us, types) ==
    {reqs[i] : i \in {j \in DOMAIN reqs :
                        /\ reqs[j].user_id \in {u.id : u \in us}
                        /\ reqs[j].ink_type_id \in types
                        /\ reqs[j].status # "approved"}}

getPendingInkRequests(reqs, us, types) ==
    {reqs[i] : i \in {j \in DOMAIN reqs :
                        /\ reqs[j].user_id \in {u.id : u \in us}
                        /\ reqs[j].ink_type_id \in types
                        /\ reqs[j].status = "pending"}}

\* ------------------------------------------------------------------ getInkRequestById
\* The record the handler builds from a joined row: the request's columns,
\* the requester's username, and the reviewer's username when
\* reviewed_by_admin_id is truthy and names an account, else null.
RequestWithDetails(row, us) ==
    [request |-> row,
     user_username |-> {u.username : u \in {v \in us : v.id = row.user_id}},
     reviewed_by_admin_username |->
        IF row.reviewed_by_admin_id # NULL /\ row.reviewed_by_admin_id # 0
        THEN {u.username : u \in {v \in us : v.id = row.reviewed_by_admin_id}}
        ELSE {}]

\* The runs of getInkRequestById(requestId) from the current store: the
\* request joined to its account and ink type; null when the select is empty.
getInkRequestByIdRuns_Throws(requestId) ==
    IF {r \in SelectRequest(requests, requestId) :
           r.user_id \in UserIds /\ r.ink_type_id \in inkTypes} = {}
    THEN {[outcome |-> "NotFound", value |-> {}]}
    ELSE {[outcome |-> "found", value |-> {RequestWithDetails(r, users)}]
          : r \in {x \in SelectRequest(requests, requestId) :
                      x.user_id \in UserIds /\ x.ink_type_id \in inkTypes}}

getInkRequestByIdRuns(requestId) ==
    IF {r \in SelectRequest(requests, requestId) :
           r.user_id \in UserIds /\ r.ink_type_id \in inkTypes} = {}
    THEN {[outcome |-> "null", value |-> {}]}
    ELSE {[outcome |-> "found", value |-> {RequestWithDetails(r, users)}]
          : r \in {x \in SelectRequest(requests, requestId) :
                      x.user_id \in UserIds /\ x.ink_type_id \in inkTypes}}

getInkRequestById(requestId) ==
    /\ \E run \in getInkRequestByIdRuns(requestId) :
         result' = [op |-> "getInkRequestById", outcome |-> run.outcome]
    /\ UNCHANGED tables
    /\ UNCHANGED calls

\* ------------------------------------------------------------------ reviewInkRequest
\* if (existingRequest.status !== 'pending') throw
IsPending_NotApproved(req) == req.status # "approved"

IsPending(req) == req.status = "pending"

\* approvedQuantity = input.approved_quantity !== undefined
\*     ? input.approved_quantity : existingRequest.requested_quantity
EffectiveApprovedQuantity_Truthy(input, existingRequest) ==
    IF input.approved_quantity # UNDEFINED /\ input.approved_quantity # 0
    THEN input.approved_quantity
    ELSE existingRequest.requested_quantity

EffectiveApprovedQuantity(input, existingRequest) ==
    IF input.approved_quantity # UNDEFINED
    THEN input.approved_quantity
    ELSE existingRequest.requested_quantity

\* let approvedQuantity = null; if (input.status === 'approved') { ... }
ResolvedApprovedQuantity_AlsoWhenRejected(input, existingRequest) ==
    EffectiveApprovedQuantity(input, existingRequest)

ResolvedApprovedQuantity(input, existingRequest) ==
    IF input.status = "approved"
    THEN EffectiveApprovedQuantity(input, existingRequest)
    ELSE NULL

\* if (approvedQuantity > stockInfo[0].current_stock) throw
InsufficientStock_Inclusive(approvedQuantity, stockRow) ==
    approvedQuantity >= stockRow.current_stock

InsufficientStock(approvedQuantity, stockRow) ==
    approvedQuantity > stockRow.current_stock

\* update(inkStockTable).set({current_stock: stockInfo[0].current_stock - approvedQuantity})
\*     .where(ink_type_id = existingRequest.ink_type_id)
\* The value written is computed from the row read earlier (stockRow).
ReduceStock_ByRequested(stk, existingRequest, stockRow, approvedQuantity) ==
    {IF s.ink_type_id = existingRequest.ink_type_id
     THEN [s EXCEPT !.current_stock = stockRow.current_stock - existingRequest.requested_quantity]
     ELSE s : s \in stk}

ReduceStock_FromCurrent(stk, existingRequest, stockRow, approvedQuantity) ==
    {IF s.ink_type_id = existingRequest.ink_type_id
     THEN [s EXCEPT !.current_stock = s.current_stock - approvedQuantity]
     ELSE s : s \in stk}

ReduceStock(stk, existingRequest, stockRow, approvedQuantity) ==
    {IF s.ink_type_id = existingRequest.ink_type_id
     THEN [s EXCEPT !.current_stock = stockRow.current_stock - approvedQuantity]
     ELSE s : s \in stk}

\* update(inkRequestsTable).set({status, approved_quantity, admin_notes,
\*     reviewed_by_admin_id, reviewed_at}).where(id = input.request_id):
\* the row as the statement leaves it.
ReviewedRow_NoReviewedAt(row, adminId, input, approvedQuantity) ==
    [row EXCEPT !.status = input.status,
                !.approved_quantity = approvedQuantity,
                !.admin_notes = input.admin_notes,
                !.reviewed_by_admin_id = adminId]

ReviewedRow_OverwritesRequested(row, adminId, input, approvedQuantity) ==
    [row EXCEPT !.status = input.status,
                !.requested_quantity = approvedQuantity,
                !.approved_quantity = approvedQuantity,
                !.admin_notes = input.admin_notes,
                !.reviewed_by_admin_id = adminId,
                !.reviewed_at = NOW]

ReviewedRow(row, adminId, input, approvedQuantity) ==
    [row EXCEPT !.status = input.status,
                !.approved_quantity = approvedQuantity,
                !.admin_notes = input.admin_notes,
                !.reviewed_by_admin_id = adminId,
                !.reviewed_at = NOW]

\* The request update as the store executes it: the foreign key on
\* reviewed_by_admin_id rejects the statement when adminId is no account.
UpdateRequestAccepted(reqs, adminId, input, approvedQuantity, us, types) ==
    /\ input.request_id \in DOMAIN reqs
    /\ RequestForeignKeysHold(
          ReviewedRow(reqs[input.request_id], adminId, input, approvedQuantity), us, types)

UpdateRequest(reqs, adminId, input, approvedQuantity) ==
    IF input.request_id \in DOMAIN reqs
    THEN [reqs EXCEPT ![input.request_id] =
            ReviewedRow(reqs[input.request_id], adminId, input, approvedQuantity)]
    ELSE reqs

\* The statements after the checks, given the stock table as the approval
\* branch left it: the request update, then the return or the store's error.
ReviewWriteRequest(stk, adminId, input, approvedQuantity) ==
    IF UpdateRequestAccepted(requests, adminId, input, approvedQuantity, users, inkTypes)
    THEN [stock |-> stk,
          requests |-> UpdateRequest(requests, adminId, input, approvedQuantity),
          outcome |-> "ok"]
    ELSE [stock |-> stk, requests |-> requests, outcome |-> "ForeignKeyViolation"]

ReviewThrow(kind) == [stock |-> stock, requests |-> requests, outcome |-> kind]

\* The approval branch for the stock row the handler reads as stockInfo[0].
ReviewApprove_AtMostRequested(adminId, input, existingRequest, stockRow) ==
    IF \/ InsufficientStock(ResolvedApprovedQuantity(input, existingRequest), stockRow)
       \/ ResolvedApprovedQuantity(input, existingRequest) >
             existingRequest.requested_quantity
    THEN ReviewThrow("InsufficientStock")
    ELSE ReviewWriteRequest(
            ReduceStock(stock, existingRequest, stockRow,
                        ResolvedApprovedQuantity(input, existingRequest)),
            adminId, input, ResolvedApprovedQuantity(input, existingRequest))

ReviewApprove(adminId, input, existingRequest, stockRow) ==
    IF InsufficientStock(ResolvedApprovedQuantity(input, existingRequest), stockRow)
    THEN ReviewThrow("InsufficientStock")
    ELSE ReviewWriteRequest(
            ReduceStock(stock, existingRequest, stockRow,
                        ResolvedApprovedQuantity(input, existingRequest)),
            adminId, input, ResolvedApprovedQuantity(input, existingRequest))

\* The handler from the pending check on, for the row it reads as
\* existingRequest (requests[0] of the select); stockInfo[0] is any row of
\* the stock select when it returns several.
ReviewExisting_StockFirst(adminId, input, existingRequest) ==
    IF ~IsPending(existingRequest)
    THEN {ReviewThrow("AlreadyReviewed")}
    ELSE IF SelectStock(stock, existingRequest.ink_type_id) = {}
    THEN {ReviewThrow("NoStockInformation")}
    ELSE IF input.status = "approved"
    THEN {ReviewApprove(adminId, input, existingRequest, stockRow)
          : stockRow \in SelectStock(stock, existingRequest.ink_type_id)}
    ELSE {ReviewWriteRequest(stock, adminId, input,
             ResolvedApprovedQuantity(input, existingRequest))}

ReviewExisting_ChecksAssignment(adminId, input, existingRequest) ==
    IF ~IsPending(existingRequest)
    THEN {ReviewThrow("AlreadyReviewed")}
    ELSE IF SelectAssignment(assignments, existingRequest.user_id,
                             existingRequest.ink_type_id) = {}
    THEN {ReviewThrow("PermissionDenied")}
    ELSE IF input.status = "approved"
    THEN IF SelectStock(stock, existingRequest.ink_type_id) = {}
         THEN {ReviewThrow("NoStockInformation")}
         ELSE {ReviewApprove(adminId, input, existingRequest, stockRow)
               : stockRow \in SelectStock(stock, existingRequest.ink_type_id)}
    ELSE {ReviewWriteRequest(stock, adminId, input,
             ResolvedApprovedQuantity(input, existingRequest))}

ReviewExisting(adminId, input, existingRequest) ==
    IF ~IsPending(existingRequest)
    THEN {ReviewThrow("AlreadyReviewed")}
    ELSE IF input.status = "approved"
    THEN IF SelectStock(stock, existingRequest.ink_type_id) = {}
         THEN {ReviewThrow("NoStockInformation")}
         ELSE {ReviewApprove(adminId, input, existingRequest, stockRow)
               : stockRow \in SelectStock(stock, existingRequest.ink_type_id)}
    ELSE {ReviewWriteRequest(stock, adminId, input,
             ResolvedApprovedQuantity(input, existingRequest))}

\* The runs of reviewInkRequest(adminId, input) from the current store: what
\* each leaves in the stock and request tables and what it returns or throws.
reviewInkRequestRuns(adminId, input) ==
    IF SelectRequest(requests, input.request_id) = {}
    THEN {ReviewThrow("NotFound")}
    ELSE UNION {ReviewExisting(adminId, input, existingRequest)
                : existingRequest \in SelectRequest(requests, input.request_id)}

reviewInkRequest(adminId, input) ==
    /\ \E run \in reviewInkRequestRuns(adminId, input) :
         /\ stock' = run.stock
         /\ requests' = run.requests
         /\ result' = [op |-> "reviewInkRequest", outcome |-> run.outcome]
    /\ UNCHANGED <<users, inkTypes, assignments, serial, calls>>

\* ------------------------------------------------------------------ user ink assignments
\* if (existingAssignment.length > 0) throw
AssignmentExists_SameCap(asg, input) ==
    {a \in SelectAssignment(asg, input.user_id, input.ink_type_id) :
        a.max_quantity_per_request = input.max_quantity_per_request} # {}

AssignmentExists(asg, input) ==
    SelectAssignment(asg, input.user_id, input.ink_type_id) # {}

NewAssignmentRow(id, input) ==
    [id |-> id, user_id |-> input.user_id, ink_type_id |-> input.ink_type_id,
     max_quantity_per_request |-> input.max_quantity_per_request]

\* The run of createUserInkAssignment(input) from the current store.
createUserInkAssignmentRun_InkTypeFirst(input) ==
    IF input.ink_type_id \notin inkTypes
    THEN [assignments |-> assignments, serial |-> serial, outcome |-> "InkTypeNotFound"]
    ELSE IF input.user_id \notin UserIds
    THEN [assignments |-> assignments, serial |-> serial, outcome |-> "UserNotFound"]
    ELSE IF AssignmentExists(assignments, input)
    THEN [assignments |-> assignments, serial |-> serial, outcome |-> "Conflict"]
    ELSE [assignments |-> assignments \cup {NewAssignmentRow(serial.assignments, input)},
          serial |-> [serial EXCEPT !.assignments = @ + 1],
          outcome |-> "ok"]

createUserInkAssignmentRun(input) ==
    IF input.user_id \notin UserIds
    THEN [assignments |-> assignments, serial |-> serial, outcome |-> "UserNotFound"]
    ELSE IF input.ink_type_id \notin inkTypes
    THEN [assignments |-> assignments, serial |-> serial, outcome |-> "InkTypeNotFound"]
    ELSE IF AssignmentExists(assignments, input)
    THEN [assignments |-> assignments, serial |-> serial, outcome |-> "Conflict"]
    ELSE [assignments |-> assignments \cup {NewAssignmentRow(serial.assignments, input)},
          serial |-> [serial EXCEPT !.assignments = @ + 1],
          outcome |-> "ok"]

createUserInkAssignment(input) ==
    /\ LET run == createUserInkAssignmentRun(input) IN
         /\ run.serial.assignments <= MaxAssignmentId + 1
         /\ assignments' = run.assignments
         /\ serial' = run.serial
         /\ result' = [op |-> "createUserInkAssignment", outcome |-> run.outcome]
    /\ UNCHANGED <<users, inkTypes, stock, requests, calls>>

\* delete(userInkAssignmentsTable).where(id = assignmentId)
DeleteAssignment_OfSameUser(asg, assignmentId) ==
    {a \in asg : \A x \in SelectAssignmentById(asg, assignmentId) : a.user_id # x.user_id}

DeleteAssignment(asg, assignmentId) == {a \in asg : a.id # assignmentId}

\* The run of removeUserInkAssignment(assignmentId) from the current store;
\* it returns rowCount > 0.
removeUserInkAssignmentRun(assignmentId) ==
    IF SelectAssignmentById(assignments, assignmentId) = {}
    THEN [assignments |-> assignments, outcome |-> "NotFound"]
    ELSE [assignments |-> DeleteAssignment(assignments, assignmentId),
          outcome |-> IF DeleteAssignment(assignments, assignmentId) # assignments
                      THEN "ok" ELSE "false"]

removeUserInkAssignment(assignmentId) ==
    /\ assignments' = removeUserInkAssignmentRun(assignmentId).assignments
    /\ result' = [op |-> "removeUserInkAssignment",
                  outcome |-> removeUserInkAssignmentRun(assignmentId).outcome]
    /\ UNCHANGED <<users, inkTypes, stock, requests, serial, calls>>

\* update(userInkAssignmentsTable).set({max_quantity_per_request}).where(id = assignmentId)
SetMaxQuantity_OfSameUser(asg, assignmentId, maxQuantity) ==
    {IF \E x \in SelectAssignmentById(asg, assignmentId) : a.user_id = x.user_id
     THEN [a EXCEPT !.max_quantity_per_request = maxQuantity]
     ELSE a : a \in asg}

SetMaxQuantity(asg, assignmentId, maxQuantity) ==
    {IF a.id = assignmentId
     THEN [a EXCEPT !.max_quantity_per_request = maxQuantity]
     ELSE a : a \in asg}

\* The run of updateUserInkAssignment(assignmentId, maxQuantity) from the
\* current store.
updateUserInkAssignmentRun(assignmentId, maxQuantity) ==
    IF SelectAssignmentById(assignments, assignmentId) = {}
    THEN [assignments |-> assignments, outcome |-> "NotFound"]
    ELSE [assignments |-> SetMaxQuantity(assignments, assignmentId, maxQuantity),
          outcome |-> "ok"]

updateUserInkAssignment(assignmentId, maxQuantity) ==
    /\ assignments' = updateUserInkAssignmentRun(assignmentId, maxQuantity).assignments
    /\ result' = [op |-> "updateUserInkAssignment",
                  outcome |-> updateUserInkAssignmentRun(assignmentId, maxQuantity).outcome]
    /\ UNCHANGED <<users, inkTypes, stock, requests, serial, calls>>

\* getUserInkAssignments(userId): the assignments of the account, joined to
\* their account and ink type.
getUserInkAssignments(asg, us, types, userId) ==
    {a \in asg : /\ a.user_id \in {u.id : u \in us}
                 /\ a.ink_type_id \in types
                 /\ a.user_id = userId}

\* ------------------------------------------------------------------ updateInkStock
\* update(inkStockTable).set({current_stock, minimum_stock}).where(ink_type_id = t)
UpdateStockRows_CurrentOnly(stk, input) ==
    {IF s.ink_type_id = input.ink_type_id
     THEN [s EXCEPT !.current_stock = input.current_stock]
     ELSE s : s \in stk}

UpdateStockRows(stk, input) ==
    {IF s.ink_type_id = input.ink_type_id
     THEN [s EXCEPT !.current_stock = input.current_stock,
                    !.minimum_stock = input.minimum_stock]
     ELSE s : s \in stk}

\* The run of updateInkStock(input) from the current store: the update,
\* and when it updated no row, the insert (the foreign key on ink_type_id
\* applies).
updateInkStockRun(input) ==
    IF SelectStock(stock, input.ink_type_id) # {}
    THEN [stock |-> UpdateStockRows(stock, input), serial |-> serial, outcome |-> "ok"]
    ELSE IF input.ink_type_id \in inkTypes
    THEN [stock |-> stock \cup {[id |-> serial.stock, ink_type_id |-> input.ink_type_id,
                                  current_stock |-> input.current_stock,
                                  minimum_stock |-> input.minimum_stock]},
          serial |-> [serial EXCEPT !.stock = @ + 1],
          outcome |-> "ok"]
    ELSE [stock |-> stock, serial |-> serial, outcome |-> "ForeignKeyViolation"]

updateInkStock(input) ==
    /\ stock' = updateInkStockRun(input).stock
    /\ serial' = updateInkStockRun(input).serial
    /\ result' = [op |-> "updateInkStock", outcome |-> updateInkStockRun(input).outcome]
    /\ UNCHANGED <<users, inkTypes, assignments, requests, calls>>

\* ------------------------------------------------------------------ getLowStockAlerts
\* select().from(inkStockTable).innerJoin(inkTypesTable, ink_type_id = ink_types.id)
\*     .where(lt(current_stock, minimum_stock))
getLowStockAlerts_Inclusive(stk, types) ==
    {s \in stk : s.ink_type_id \in types /\ s.current_stock <= s.minimum_stock}

getLowStockAlerts(stk, types) ==
    {s \in stk : s.ink_type_id \in types /\ s.current_stock < s.minimum_stock}

\* The call: a read of the store.
getLowStockAlertsQuery ==
    /\ result' = [op |-> "getLowStockAlerts",
                  outcome |-> IF getLowStockAlerts(stock, inkTypes) = {}
                              THEN "empty" ELSE "alerts"]
    /\ UNCHANGED tables
    /\ UNCHANGED calls

\* ------------------------------------------------------------------ registerUser
\* The handler resolves to a user record built from the input (id 0) and
\* runs no statement on the store.
registerUserRun(input) ==
    [users |-> users,
     returned |-> [id |-> 0, username |-> input.username, email |-> input.email,
                   role |-> input.role],
     outcome |-> "ok"]

registerUser(input) ==
    /\ users' = registerUserRun(input).users
    /\ result' = [op |-> "registerUser", outcome |-> registerUserRun(input).outcome]
    /\ UNCHANGED <<inkTypes, stock, assignments, requests, serial, calls>>

\* ------------------------------------------------------------------ ink types
\* createInkType(input): insert the ink type, then its stock row (0, 0).
createInkType ==
    /\ inkTypes' = inkTypes \cup {serial.inkTypes}
    /\ stock' = stock \cup {[id |-> serial.stock, ink_type_id |-> serial.inkTypes,
                              current_stock |-> 0, minimum_stock |-> 0]}
    /\ serial' = [serial EXCEPT !.inkTypes = @ + 1, !.stock = @ + 1]
    /\ result' = [op |-> "createInkType", outcome |-> "ok"]
    /\ UNCHANGED <<users, assignments, requests, calls>>

\* The rows that reference an ink type through a foreign key: ink_stock,
\* user_ink_assignments and ink_requests each have ink_type_id
\* references ink_types.id, with no cascade.
InkTypeReferenced(id, stk, asg, reqs) ==
    \/ \E s \in stk : s.ink_type_id = id
    \/ \E a \in asg : a.ink_type_id = id
    \/ \E i \in DOMAIN reqs : reqs[i].ink_type_id = id

\* delete(inkStockTable).where(ink_type_id = id)
DeleteStock(stk, id) == {s \in stk : s.ink_type_id # id}

\* The run of deleteInkType(id) from the current store: the stock rows of
\* the type are deleted, then the type; the second statement is rejected
\* when a row still references the type, and the first is not undone.
deleteInkTypeRun(id) ==
    IF InkTypeReferenced(id, DeleteStock(stock, id), assignments, requests)
    THEN [stock |-> DeleteStock(stock, id), inkTypes |-> inkTypes,
          outcome |-> "ForeignKeyViolation"]
    ELSE [stock |-> DeleteStock(stock, id), inkTypes |-> inkTypes \ {id},
          outcome |-> IF id \in inkTypes THEN "ok" ELSE "false"]

deleteInkType(id) ==
    /\ stock' = deleteInkTypeRun(id).stock
    /\ inkTypes' = deleteInkTypeRun(id).inkTypes
    /\ result' = [op |-> "deleteInkType", outcome |-> deleteInkTypeRun(id).outcome]
    /\ UNCHANGED <<users, assignments, requests, serial, calls>>

\* ------------------------------------------------------------------ specifications
\* The store before any assignment or request: two accounts (1 a user, 2 an
\* administrator) and two ink types, each with the stock row createInkType
\* gives it.
InitStore ==
    /\ users = {[id |-> 1, username |-> "user", email |-> "user@", role |-> "user"],
                [id |-> 2, username |-> "admin", email |-> "admin@", role |-> "admin"]}
    /\ inkTypes = {1, 2}
    /\ stock = {[id |-> 1, ink_type_id |-> 1, current_stock |-> 0, minimum_stock |-> 0],
                [id |-> 2, ink_type_id |-> 2, current_stock |-> 0, minimum_stock |-> 0]}
    /\ requests = <<>>
    /\ calls = <<>>
    /\ result = [op |-> "none", outcome |-> "none"]

\* The inputs the calls are drawn from.
RequestInputs(reasons) ==
    [ink_type_id : InkTypeIdInputs, requested_quantity : Quantities,
     request_reason : reasons]
ReviewInputs(notes) ==
    [request_id : 1..(MaxRequests + 1), status : {"approved", "rejected"},
     approved_quantity : {UNDEFINED} \cup (0..MaxQty), admin_notes : notes]
UserInputs ==
    [username : {"user", "new"}, email : {"admin@", "new@"}, role : {"user", "admin"}]
AssignmentInputs(userIds) ==
    [user_id : userIds, ink_type_id : InkTypeIdInputs,
     max_quantity_per_request : Quantities]
StockInputs(inkTypeIds) ==
    [ink_type_id : inkTypeIds, current_stock : 0..MaxQty, minimum_stock : {0}]
StockLevelInputs ==
    [ink_type_id : InkTypeIdInputs, current_stock : 0..MaxQty, minimum_stock : 0..MaxQty]

\* The request workflow: account 1 holds an assignment for ink type 1, the
\* accounts submit requests while the table has room, the administrator (2)
\* and an id that is no account (3) review them with notes, and the stock of any
\* ink type id is adjusted by hand.
Requesters == {1, 2}
Reviewers == {2, 3}

Init ==
    /\ InitStore
    /\ assignments = {[id |-> 1, user_id |-> 1, ink_type_id |-> 1,
                       max_quantity_per_request |-> MaxQty]}
    /\ serial = [assignments |-> 2, stock |-> 3, inkTypes |-> 3]

Next ==
    \/ \E u \in Requesters, input \in RequestInputs({"text"}) :
         createInkRequest(u, input) /\ Len(requests') <= MaxRequests
    \/ \E a \in Reviewers, input \in ReviewInputs({"text"}) : reviewInkRequest(a, input)
    \/ \E input \in StockInputs(InkTypeIdInputs) : updateInkStock(input)

Spec == Init /\ [][Next]_vars

\* The assignment service and the submission of requests against it:
\* accounts are registered, and assignments are granted to account 1 and to
\* an id that is no account.
Grantees == {1, 3}
InitAssign ==
    /\ InitStore
    /\ assignments = {}
    /\ serial = [assignments |-> 1, stock |-> 3, inkTypes |-> 3]

NextAssign ==
    \/ \E input \in AssignmentInputs(Grantees) : createUserInkAssignment(input)
    \/ \E id \in 1..(MaxAssignmentId + 1) : removeUserInkAssignment(id)
    \/ \E id \in 1..(MaxAssignmentId + 1), q \in Quantities : updateUserInkAssignment(id, q)
    \/ \E u \in Requesters, input \in RequestInputs(TextInputs) :
         createInkRequest(u, input) /\ Len(requests') <= MaxRequests
    \/ \E input \in UserInputs : registerUser(input)

SpecAssign == InitAssign /\ [][NextAssign]_vars

\* The ink type lifecycle beside the request workflow: ink types are
\* created and deleted, ink type 2 is granted to account 1, the stock of ink
\* type 1 is refilled by hand, and account 1 submits requests for ink type 1
\* that are reviewed for the requested quantity.
InitTypes == Init

NextTypes ==
    \/ /\ createInkType
       /\ serial'.inkTypes <= MaxInkTypeId + 1
       /\ serial'.stock <= MaxStockId + 1
    \/ \E id \in InkTypeIdInputs : deleteInkType(id)
    \/ \E input \in {x \in StockInputs({1}) : x.current_stock = MaxQty} :
         updateInkStock(input) /\ serial'.stock <= MaxStockId + 1
    \/ createUserInkAssignment([user_id |-> 1, ink_type_id |-> 2,
                                max_quantity_per_request |-> MaxQty])
    \/ \E q \in Quantities :
         /\ createInkRequest(1, [ink_type_id |-> 1, requested_quantity |-> q,
                                 request_reason |-> "text"])
         /\ Len(requests') <= MaxRequests
    \/ \E a \in Reviewers,
          input \in {r \in ReviewInputs({"text"}) : r.approved_quantity = UNDEFINED} :
         reviewInkRequest(a, input)

SpecTypes == InitTypes /\ [][NextTypes]_vars

\* The stock service: levels and thresholds of any ink type id are set by
\* hand, the low-stock list is read, and ink types are deleted (ink type 1
\* is referenced by the assignment of account 1, ink type 2 by nothing).
InitStock == Init

NextStock ==
    \/ \E input \in StockLevelInputs :
         updateInkStock(input) /\ serial'.stock <= MaxStockId + 1
    \/ getLowStockAlertsQuery
    \/ \E id \in InkTypeIdInputs : deleteInkType(id)

SpecStock == InitStock /\ [][NextStock]_vars

\* The quota beside the request workflow: the assignment of account 1 for
\* ink type 1 is removed or its cap changed, account 1 submits requests for
\* ink type 1, the stock of ink type 1 is refilled by hand, requests are
\* looked up by id, and reviews are made without a quantity or with the
\* largest one.
\* The route takes adminId as any number: the reviews are made with the id
\* of the account of role user and with the id of the administrator.
QuotaReviewers == {1, 2}

InitQuota == Init

NextQuota ==
    \/ \E id \in 1..MaxAssignmentId : removeUserInkAssignment(id)
    \/ \E id \in 1..MaxAssignmentId, q \in Quantities : updateUserInkAssignment(id, q)
    \/ \E q \in Quantities :
         /\ createInkRequest(1, [ink_type_id |-> 1, requested_quantity |-> q,
                                 request_reason |-> "text"])
         /\ Len(requests') <= MaxRequests
    \/ \E input \in {x \in StockInputs({1}) : x.current_stock = MaxQty} :
         updateInkStock(input)
    \/ \E id \in 1..(MaxRequests + 1) : getInkRequestById(id)
    \/ \E a \in QuotaReviewers,
          input \in {x \in ReviewInputs({"text"}) :
                       x.approved_quantity \in {UNDEFINED, MaxQty}} :
         reviewInkRequest(a, input)

SpecQuota == InitQuota /\ [][NextQuota]_vars

\* ------------------------------------------------------------------ concurrent calls
\* reviewInkRequest under concurrent callers: the handler awaits each store
\* statement, so another call's statements may run between any two of its
\* own.  A frame holds the call's arguments, the statement it is at, and
\* the rows it has read so far.
Procs == {1, 2}

NoRow == [id |-> 0]

IdleFrame ==
    [pc |-> "idle", adminId |-> 0, input |-> NoRow, existingRequest |-> NoRow,
     stockRow |-> NoRow, approvedQuantity |-> NULL, outcome |-> "none", wroteStock |-> FALSE]

\* The call is over: the frame keeps what it returned or threw.
Finish(frame, kind) == [frame EXCEPT !.pc = "done", !.outcome = kind]

\* reviewInkRequest(adminId, input) is called.
ReviewCall(p, adminId, input) ==
    /\ calls[p].pc = "idle"
    /\ calls' = [calls EXCEPT ![p] =
                    [IdleFrame EXCEPT !.pc = "selectRequest", !.adminId = adminId,
                                      !.input = input]]
    /\ UNCHANGED <<tables, result>>

\* select the request; throw when it is absent or not pending.
ReviewSelectRequest(p) ==
    /\ calls[p].pc = "selectRequest"
    /\ LET frame == calls[p] IN
       IF SelectRequest(requests, frame.input.request_id) = {}
       THEN calls' = [calls EXCEPT ![p] = Finish(frame, "NotFound")]
       ELSE \E existingRequest \in SelectRequest(requests, frame.input.request_id) :
            IF ~IsPending(existingRequest)
            THEN calls' = [calls EXCEPT ![p] = Finish(frame, "AlreadyReviewed")]
            ELSE calls' = [calls EXCEPT ![p] =
                    [frame EXCEPT !.existingRequest = existingRequest,
                                  !.pc = IF frame.input.status = "approved"
                                         THEN "selectStock" ELSE "updateRequest"]]
    /\ UNCHANGED <<tables, result>>

\* select the stock of the request's ink type; resolve the approved
\* quantity; throw when there is no row or not enough stock.
ReviewSelectStock(p) ==
    /\ calls[p].pc = "selectStock"
    /\ LET frame == calls[p] IN
       IF SelectStock(stock, frame.existingRequest.ink_type_id) = {}
       THEN calls' = [calls EXCEPT ![p] = Finish(frame, "NoStockInformation")]
       ELSE \E stockRow \in SelectStock(stock, frame.existingRequest.ink_type_id) :
            IF InsufficientStock(
                 ResolvedApprovedQuantity(frame.input, frame.existingRequest), stockRow)
            THEN calls' = [calls EXCEPT ![p] = Finish(frame, "InsufficientStock")]
            ELSE calls' = [calls EXCEPT ![p] =
                    [frame EXCEPT !.stockRow = stockRow,
                                  !.approvedQuantity =
                                     ResolvedApprovedQuantity(frame.input, frame.existingRequest),
                                  !.pc = "updateStock"]]
    /\ UNCHANGED <<tables, result>>

\* update the stock to the value computed from the row read before.
ReviewUpdateStock(p) ==
    /\ calls[p].pc = "updateStock"
    /\ stock' = ReduceStock(stock, calls[p].existingRequest, calls[p].stockRow,
                            calls[p].approvedQuantity)
    /\ calls' = [calls EXCEPT ![p] = [@ EXCEPT !.pc = "updateRequest", !.wroteStock = TRUE]]
    /\ UNCHANGED <<users, inkTypes, assignments, requests, serial, result>>

\* update the request row, then return it (or rethrow the store's error).
ReviewUpdateRequest(p) ==
    /\ calls[p].pc = "updateRequest"
    /\ LET frame == calls[p] IN
       IF UpdateRequestAccepted(requests, frame.adminId, frame.input,
                                frame.approvedQuantity, users, inkTypes)
       THEN /\ requests' = UpdateRequest(requests, frame.adminId, frame.input,
                                         frame.approvedQuantity)
            /\ calls' = [calls EXCEPT ![p] = Finish(frame, "ok")]
       ELSE /\ UNCHANGED requests
            /\ calls' = [calls EXCEPT ![p] = Finish(frame, "ForeignKeyViolation")]
    /\ UNCHANGED <<users, inkTypes, stock, assignments, serial, result>>

\* Two callers each review once, concurrently, the requests account 1
\* submits for ink type 1, whose stock starts at MaxQty and is adjusted by
\* hand between their statements.
ConcReviewInputs ==
    [request_id : 1..MaxConcRequests, status : {"approved", "rejected"},
     approved_quantity : {UNDEFINED}, admin_notes : {NULLTEXT}]

InitConc ==
    /\ users = {[id |-> 1, username |-> "user", email |-> "user@", role |-> "user"],
                [id |-> 2, username |-> "admin", email |-> "admin@", role |-> "admin"]}
    /\ inkTypes = {1, 2}
    /\ stock = {[id |-> 1, ink_type_id |-> 1, current_stock |-> MaxQty, minimum_stock |-> 0],
                [id |-> 2, ink_type_id |-> 2, current_stock |-> 0, minimum_stock |-> 0]}
    /\ assignments = {[id |-> 1, user_id |-> 1, ink_type_id |-> 1,
                       max_quantity_per_request |-> MaxQty]}
    /\ serial = [assignments |-> 2, stock |-> 3, inkTypes |-> 3]
    /\ requests = <<>>
    /\ calls = [p \in Procs |-> IdleFrame]
    /\ result = [op |-> "none", outcome |-> "none"]

\* The submissions and the statements of the concurrent reviews.
NextReviews ==
    \/ \E q \in Quantities :
         /\ createInkRequest(1, [ink_type_id |-> 1, requested_quantity |-> q,
                                 request_reason |-> "text"])
         /\ Len(requests') <= MaxConcRequests
    \/ \E p \in Procs, input \in ConcReviewInputs : ReviewCall(p, 2, input)
    \/ \E p \in Procs : ReviewSelectRequest(p)
    \/ \E p \in Procs : ReviewSelectStock(p)
    \/ \E p \in Procs : ReviewUpdateStock(p)
    \/ \E p \in Procs : ReviewUpdateRequest(p)

NextConc ==
    \/ NextReviews
    \/ \E input \in StockInputs({1}) : updateInkStock(input)

SpecConc == InitConc /\ [][NextConc]_vars

\* The same without the manual adjustments: only reviews change the stock.
SpecReviews == InitConc /\ [][NextReviews]_vars

\* ------------------------------------------------------------------ concurrent grants
\* createUserInkAssignment under concurrent callers: each awaited select and
\* the insert is one step of the calling process.  The table has no unique
\* constraint on (user_id, ink_type_id), so the insert checks only the
\* foreign keys.
GrantIdleFrame == [pc |-> "idle", input |-> NoRow, outcome |-> "none"]

\* createUserInkAssignment(input) is called.
GrantCall(p, input) ==
    /\ calls[p].pc = "idle"
    /\ calls' = [calls EXCEPT ![p] = [GrantIdleFrame EXCEPT !.pc = "selectUser",
                                                           !.input = input]]
    /\ UNCHANGED <<tables, result>>

\* select the user; throw when there is none.
GrantSelectUser(p) ==
    /\ calls[p].pc = "selectUser"
    /\ calls' = [calls EXCEPT ![p] =
                    IF calls[p].input.user_id \notin UserIds
                    THEN [@ EXCEPT !.pc = "done", !.outcome = "UserNotFound"]
                    ELSE [@ EXCEPT !.pc = "selectInkType"]]
    /\ UNCHANGED <<tables, result>>

\* select the ink type; throw when there is none.
GrantSelectInkType(p) ==
    /\ calls[p].pc = "selectInkType"
    /\ calls' = [calls EXCEPT ![p] =
                    IF calls[p].input.ink_type_id \notin inkTypes
                    THEN [@ EXCEPT !.pc = "done", !.outcome = "InkTypeNotFound"]
                    ELSE [@ EXCEPT !.pc = "selectExisting"]]
    /\ UNCHANGED <<tables, result>>

\* select the assignments of the pair; throw when there is one.
GrantSelectExisting(p) ==
    /\ calls[p].pc = "selectExisting"
    /\ calls' = [calls EXCEPT ![p] =
                    IF AssignmentExists(assignments, calls[p].input)
                    THEN [@ EXCEPT !.pc = "done", !.outcome = "Conflict"]
                    ELSE [@ EXCEPT !.pc = "insert"]]
    /\ UNCHANGED <<tables, result>>

\* insert the assignment and return it.
GrantInsert(p) ==
    /\ calls[p].pc = "insert"
    /\ serial.assignments <= MaxAssignmentId
    /\ IF calls[p].input.user_id \in UserIds /\ calls[p].input.ink_type_id \in inkTypes
       THEN /\ assignments' = assignments \cup
                                 {NewAssignmentRow(serial.assignments, calls[p].input)}
            /\ serial' = [serial EXCEPT !.assignments = @ + 1]
            /\ calls' = [calls EXCEPT ![p] = [@ EXCEPT !.pc = "done", !.outcome = "ok"]]
       ELSE /\ calls' = [calls EXCEPT ![p] =
                            [@ EXCEPT !.pc = "done", !.outcome = "ForeignKeyViolation"]]
            /\ UNCHANGED <<assignments, serial>>
    /\ UNCHANGED <<users, inkTypes, stock, requests, result>>

\* Two callers each grant once, concurrently, an ink type to account 1,
\* while assignments are removed and their caps updated.
GrantInputs == AssignmentInputs({1})

InitGrant ==
    /\ users = {[id |-> 1, username |-> "user", email |-> "user@", role |-> "user"],
                [id |-> 2, username |-> "admin", email |-> "admin@", role |-> "admin"]}
    /\ inkTypes = {1, 2}
    /\ stock = {[id |-> 1, ink_type_id |-> 1, current_stock |-> 0, minimum_stock |-> 0],
                [id |-> 2, ink_type_id |-> 2, current_stock |-> 0, minimum_stock |-> 0]}
    /\ assignments = {}
    /\ serial = [assignments |-> 1, stock |-> 3, inkTypes |-> 3]
    /\ requests = <<>>
    /\ calls = [p \in Procs |-> GrantIdleFrame]
    /\ result = [op |-> "none", outcome |-> "none"]

NextGrant ==
    \/ \E p \in Procs, input \in GrantInputs : GrantCall(p, input)
    \/ \E p \in Procs : GrantSelectUser(p)
    \/ \E p \in Procs : GrantSelectInkType(p)
    \/ \E p \in Procs : GrantSelectExisting(p)
    \/ \E p \in Procs : GrantInsert(p)
    \/ \E id \in 1..MaxAssignmentId : removeUserInkAssignment(id)
    \/ \E id \in 1..MaxAssignmentId, q \in Quantities : updateUserInkAssignment(id, q)

SpecGrant == InitGrant /\ [][NextGrant]_vars

\* ------------------------------------------------------------------ claims
\* The quantity an approval is to record and to take from stock, as the
\* claims word it: the caller's quantity when given, else the requested one.
ClaimedQuantity(input, req) ==
    IF input.approved_quantity = UNDEFINED THEN req.requested_quantity
    ELSE input.approved_quantity

\* A review call on a stored request that is still pending.
OnPending(input) ==
    /\ input.request_id \in DOMAIN requests
    /\ requests[input.request_id].status = "pending"

\* The stock rows of the ink type of the request a review names.
StockRowsFor(input) ==
    {s \in stock : s.ink_type_id = requests[input.request_id].ink_type_id}

\* In the run, every stock row of the request's ink type is down by q and
\* the rows of the other ink types are as before.
StockReducedBy(run, input, q) ==
    run.stock = {IF s \in StockRowsFor(input)
                 THEN [s EXCEPT !.current_stock = s.current_stock - q] ELSE s : s \in stock}

\* The approval case of C1: an approving review of a pending request whose
\* claimed quantity the current stock covers.
ApprovalCovered(input) ==
    /\ input.status = "approved"
    /\ OnPending(input)
    /\ StockRowsFor(input) # {}
    /\ \A s \in StockRowsFor(input) :
         ClaimedQuantity(input, requests[input.request_id]) <= s.current_stock

ApprovalRecorded(run, input) ==
    /\ StockReducedBy(run, input, ClaimedQuantity(input, requests[input.request_id]))
    /\ run.requests[input.request_id].approved_quantity =
         ClaimedQuantity(input, requests[input.request_id])
    /\ run.requests[input.request_id].status = "approved"

\* C1 as stated: every approving review of a pending request that the stock
\* covers, whoever the reviewer id is, reduces the stock by the effective
\* approved quantity, stores that quantity and sets the status approved.
C1_AnyReviewer ==
    \A a \in UserIdInputs, input \in ReviewInputs(TextInputs) :
        ApprovalCovered(input) =>
            \A run \in reviewInkRequestRuns(a, input) : ApprovalRecorded(run, input)

\* C1 (amended): an approving review of a pending request that the stock
\* covers, made with the id of an existing account and run to completion,
\* succeeds, reduces the stock of the request's ink type by the effective
\* approved quantity, stores that quantity as approved_quantity and sets the
\* status approved.
C1_ApprovalReducesStock ==
    \A a \in UserIdInputs, input \in ReviewInputs(TextInputs) :
        (ApprovalCovered(input) /\ a \in {u.id : u \in users}) =>
            \A run \in reviewInkRequestRuns(a, input) :
                run.outcome = "ok" /\ ApprovalRecorded(run, input)

\* A partial approval has been made: a request approved for a quantity
\* other than the requested one, with stock left over.
C1_Witness ==
    /\ result = [op |-> "reviewInkRequest", outcome |-> "ok"]
    /\ \E i \in DOMAIN requests :
         /\ requests[i].status = "approved"
         /\ requests[i].approved_quantity >= 1
         /\ requests[i].approved_quantity # requests[i].requested_quantity
         /\ \E s \in stock : s.ink_type_id = requests[i].ink_type_id /\ s.current_stock >= 1

\* C2: an approving review of a pending request whose ink type has a stock
\* row fails with InsufficientStock exactly when the effective approved
\* quantity is strictly greater than the current stock; a quantity equal to
\* the stock is accepted and leaves stock 0; the failure changes neither the
\* stock nor the request, which stays pending with approved_quantity,
\* reviewed_by_admin_id and reviewed_at null.
C2_InsufficientStock ==
    \A a \in UserIdInputs, input \in ReviewInputs(TextInputs) :
        (input.status = "approved" /\ OnPending(input)) =>
            \A s \in StockRowsFor(input) :
            \A run \in reviewInkRequestRuns(a, input) :
                LET q == ClaimedQuantity(input, requests[input.request_id]) IN
                /\ (run.outcome = "InsufficientStock") <=> (q > s.current_stock)
                /\ (q = s.current_stock) =>
                      \A s2 \in run.stock :
                         s2.ink_type_id = s.ink_type_id => s2.current_stock = 0
                /\ (q > s.current_stock) =>
                      /\ run.stock = stock
                      /\ run.requests = requests
                      /\ run.requests[input.request_id].status = "pending"
                      /\ run.requests[input.request_id].approved_quantity = NULL
                      /\ run.requests[input.request_id].reviewed_by_admin_id = NULL
                      /\ run.requests[input.request_id].reviewed_at = NULLTEXT

\* An approval has failed for want of stock while the stock is not empty.
C2_Witness ==
    /\ result = [op |-> "reviewInkRequest", outcome |-> "InsufficientStock"]
    /\ \E i \in DOMAIN requests :
         /\ requests[i].status = "pending"
         /\ \E s \in stock :
              /\ s.ink_type_id = requests[i].ink_type_id
              /\ s.current_stock >= 1
              /\ s.current_stock < requests[i].requested_quantity

\* C3: a review of a request that is already approved or rejected fails
\* with AlreadyReviewed whatever the decision, quantity, notes and reviewer,
\* and changes neither the request table (status, approved_quantity,
\* admin_notes, reviewed_by_admin_id stay as the first review left them)
\* nor the stock.
C3_AlreadyReviewed ==
    \A a \in UserIdInputs, input \in ReviewInputs(TextInputs) :
        (/\ input.request_id \in DOMAIN requests
         /\ requests[input.request_id].status \in {"approved", "rejected"}) =>
            \A run \in reviewInkRequestRuns(a, input) :
                /\ run.outcome = "AlreadyReviewed"
                /\ run.requests = requests
                /\ run.stock = stock

\* A second review has been refused while every stored request is reviewed.
C3_Witness ==
    /\ result = [op |-> "reviewInkRequest", outcome |-> "AlreadyReviewed"]
    /\ requests # <<>>
    /\ \A i \in DOMAIN requests : requests[i].status \in {"approved", "rejected"}

\* C4: under every interleaving of the statements of concurrent review
\* calls on the same request, at most one of the calls succeeds, at most
\* one of them writes the stock, and a request that is approved or rejected
\* keeps its status for ever.
ReviewedOnce ==
    \A p \in Procs, q \in Procs :
        (/\ p # q
         /\ calls[p].pc = "done"
         /\ calls[q].pc = "done"
         /\ calls[p].input.request_id = calls[q].input.request_id) =>
            /\ ~(calls[p].outcome = "ok" /\ calls[q].outcome = "ok")
            /\ ~(calls[p].wroteStock /\ calls[q].wroteStock)

C4_ReviewedOnce ==
    [][/\ ReviewedOnce'
       /\ \A i \in DOMAIN requests :
            requests[i].status # "pending" => requests'[i].status = requests[i].status]_vars

\* C5: approval is atomic: an approving review, whatever the reviewer id,
\* either succeeds with the request approved and the stock reduced by the
\* approved quantity, or fails with the stock and the request both
\* unchanged; none ends with the stock reduced and the request pending.
C5_ApprovalAtomic ==
    \A a \in UserIdInputs, input \in ReviewInputs(TextInputs) :
        input.status = "approved" =>
            \A run \in reviewInkRequestRuns(a, input) :
                \/ /\ run.outcome = "ok"
                   /\ run.requests[input.request_id].status = "approved"
                   /\ StockReducedBy(run, input,
                         run.requests[input.request_id].approved_quantity)
                \/ /\ run.outcome # "ok"
                   /\ run.stock = stock
                   /\ run.requests = requests

\* C6 as stated: every rejecting review of a pending request, whoever the
\* reviewer id is, leaves all stock unchanged and approved_quantity null and
\* makes the request rejected with reviewed_by_admin_id the reviewer.
C6_AnyReviewer ==
    \A a \in UserIdInputs, input \in ReviewInputs(TextInputs) :
        (input.status = "rejected" /\ OnPending(input)) =>
            \A run \in reviewInkRequestRuns(a, input) :
                /\ run.stock = stock
                /\ run.requests[input.request_id].approved_quantity = NULL
                /\ run.requests[input.request_id].status = "rejected"
                /\ run.requests[input.request_id].reviewed_by_admin_id = a

\* C6 (amended): a rejecting review of a pending request made with the id
\* of an existing account succeeds, leaves the stock of every ink type
\* unchanged, leaves approved_quantity null even when the caller gave a
\* quantity, and makes the request rejected with reviewed_by_admin_id the
\* reviewer.
C6_RejectionLeavesStock ==
    \A a \in UserIdInputs, input \in ReviewInputs(TextInputs) :
        (input.status = "rejected" /\ OnPending(input) /\ a \in {u.id : u \in users}) =>
            \A run \in reviewInkRequestRuns(a, input) :
                /\ run.outcome = "ok"
                /\ run.stock = stock
                /\ run.requests[input.request_id].approved_quantity = NULL
                /\ run.requests[input.request_id].status = "rejected"
                /\ run.requests[input.request_id].reviewed_by_admin_id = a

\* A request has been rejected while its ink type has stock that would
\* have covered it.
C6_Witness ==
    /\ result = [op |-> "reviewInkRequest", outcome |-> "ok"]
    /\ \E i \in DOMAIN requests :
         /\ requests[i].status = "rejected"
         /\ requests[i].approved_quantity = NULL
         /\ \E s \in stock :
              /\ s.ink_type_id = requests[i].ink_type_id
              /\ s.current_stock >= requests[i].requested_quantity

\* C7: a submission for an (account, ink type) pair that has no assignment
\* fails with PermissionDenied and leaves the request table unchanged.
C7_PermissionDenied ==
    \A u \in UserIdInputs, input \in RequestInputs(TextInputs) :
        (~ \E x \in assignments : x.user_id = u /\ x.ink_type_id = input.ink_type_id) =>
            /\ createInkRequestRuns(u, input) # {}
            /\ \A run \in createInkRequestRuns(u, input) :
                 /\ run.outcome = "PermissionDenied"
                 /\ run.requests = requests

\* A submission has been denied while an account holds an assignment for
\* one ink type and none for another.
C7_Witness ==
    /\ result = [op |-> "createInkRequest", outcome |-> "PermissionDenied"]
    /\ requests = <<>>
    /\ \E x \in assignments : \E t \in inkTypes :
         ~ \E y \in assignments : y.user_id = x.user_id /\ y.ink_type_id = t

\* C8: a submission whose quantity is strictly greater than the cap of the
\* pair's assignment fails with QuotaExceeded and creates no request row; a
\* quantity equal to the cap is accepted and stored.
C8_QuotaExceeded ==
    \A u \in UserIdInputs, input \in RequestInputs(TextInputs) :
        \A x \in assignments :
            (x.user_id = u /\ x.ink_type_id = input.ink_type_id) =>
                \A run \in createInkRequestRuns(u, input) :
                    /\ (input.requested_quantity > x.max_quantity_per_request) =>
                          (run.outcome = "QuotaExceeded" /\ run.requests = requests)
                    /\ (input.requested_quantity = x.max_quantity_per_request) =>
                          (run.outcome = "ok" /\ Len(run.requests) = Len(requests) + 1)

\* A submission over the cap has been refused and one at the cap is stored.
C8_Witness ==
    /\ result = [op |-> "createInkRequest", outcome |-> "QuotaExceeded"]
    /\ \E i \in DOMAIN requests : \E x \in assignments :
         /\ x.user_id = requests[i].user_id
         /\ x.ink_type_id = requests[i].ink_type_id
         /\ x.max_quantity_per_request = requests[i].requested_quantity
         /\ x.max_quantity_per_request < MaxQty

\* C9: a successful submission appends exactly one request row, with status
\* pending, approved_quantity, reviewed_by_admin_id, reviewed_at and
\* admin_notes null, and the caller's account, ink type, quantity and reason;
\* the rows stored before are unchanged.
C9_SubmitCreatesPending ==
    \A u \in UserIdInputs, input \in RequestInputs(TextInputs) :
        \A run \in createInkRequestRuns(u, input) :
            run.outcome = "ok" =>
                /\ Len(run.requests) = Len(requests) + 1
                /\ \A i \in DOMAIN requests : run.requests[i] = requests[i]
                /\ LET row == run.requests[Len(run.requests)] IN
                   /\ row.status = "pending"
                   /\ row.approved_quantity = NULL
                   /\ row.reviewed_by_admin_id = NULL
                   /\ row.reviewed_at = NULLTEXT
                   /\ row.admin_notes = NULLTEXT
                   /\ row.user_id = u
                   /\ row.ink_type_id = input.ink_type_id
                   /\ row.requested_quantity = input.requested_quantity
                   /\ row.request_reason = input.request_reason

\* A request with a reason has been stored.
C9_Witness ==
    /\ result = [op |-> "createInkRequest", outcome |-> "ok"]
    /\ requests # <<>>
    /\ requests[Len(requests)].request_reason # NULLTEXT
    /\ requests[Len(requests)].status = "pending"

\* C10: a grant for an (account, ink type) pair that already has an
\* assignment fails with Conflict whatever cap it carries, and leaves the
\* assignment table (the original row's id and cap, the number of rows)
\* unchanged.
C10_GrantConflict ==
    \A input \in AssignmentInputs(UserIdInputs) :
        (\E x \in assignments :
            x.user_id = input.user_id /\ x.ink_type_id = input.ink_type_id) =>
            /\ createUserInkAssignmentRun(input).outcome = "Conflict"
            /\ createUserInkAssignmentRun(input).assignments = assignments

\* A duplicate grant has been refused and the pair still has its one row.
C10_Witness ==
    /\ result = [op |-> "createUserInkAssignment", outcome |-> "Conflict"]
    /\ assignments # {}

\* C12: a review whose request_id matches no stored request fails with
\* NotFound for either decision, whoever the reviewer and whatever the
\* quantity, and leaves every request and every stock row unchanged.
C12_ReviewNotFound ==
    \A a \in UserIdInputs, input \in ReviewInputs(TextInputs) :
        (~ \E i \in DOMAIN requests : requests[i].id = input.request_id) =>
            /\ reviewInkRequestRuns(a, input) # {}
            /\ \A run \in reviewInkRequestRuns(a, input) :
                 /\ run.outcome = "NotFound"
                 /\ run.requests = requests
                 /\ run.stock = stock

\* A review has found no request while another request is stored and
\* pending and its ink type has stock.
C12_Witness ==
    /\ result = [op |-> "reviewInkRequest", outcome |-> "NotFound"]
    /\ \E i \in DOMAIN requests :
         /\ requests[i].status = "pending"
         /\ \E s \in stock : s.ink_type_id = requests[i].ink_type_id /\ s.current_stock >= 1

\* C14: an approving review tells an omitted approved_quantity from an
\* explicit zero.  With the quantity omitted, a successful approval stores
\* the requested quantity and takes it from the stock; with the quantity 0
\* it stores 0 (not null, not the requested quantity), sets the status
\* approved and leaves the stock unchanged, and when the reviewer is an
\* account and the ink type has a stock row it always succeeds.
C14_OmittedOrZero ==
    \A a \in UserIdInputs, input \in ReviewInputs(TextInputs) :
        (input.status = "approved" /\ OnPending(input)) =>
            LET req == requests[input.request_id] IN
            /\ (input.approved_quantity = 0 /\ a \in {u.id : u \in users}
                  /\ StockRowsFor(input) # {}) =>
                  \E run \in reviewInkRequestRuns(a, input) : run.outcome = "ok"
            /\ \A run \in reviewInkRequestRuns(a, input) :
                 run.outcome = "ok" =>
                    /\ input.approved_quantity = UNDEFINED =>
                          /\ run.requests[input.request_id].approved_quantity =
                                req.requested_quantity
                          /\ run.requests[input.request_id].status = "approved"
                          /\ StockReducedBy(run, input, req.requested_quantity)
                    /\ input.approved_quantity = 0 =>
                          /\ run.requests[input.request_id].approved_quantity = 0
                          /\ run.requests[input.request_id].approved_quantity # NULL
                          /\ run.requests[input.request_id].approved_quantity #
                                req.requested_quantity
                          /\ run.requests[input.request_id].status = "approved"
                          /\ run.stock = stock

\* A request has been approved for the quantity 0 while its ink type has
\* stock that covers the requested quantity.
C14_Witness ==
    /\ result = [op |-> "reviewInkRequest", outcome |-> "ok"]
    /\ \E i \in DOMAIN requests :
         /\ requests[i].status = "approved"
         /\ requests[i].approved_quantity = 0
         /\ \E s \in stock :
              /\ s.ink_type_id = requests[i].ink_type_id
              /\ s.current_stock >= requests[i].requested_quantity

\* C17: a grant fails with NotFound and creates no assignment when the
\* account does not exist or when the ink type does not exist; the account
\* is checked first, so when both are missing the account's NotFound is the
\* one reported.
C17_GrantNotFound ==
    \A input \in AssignmentInputs(UserIdInputs) :
        /\ (~ \E u \in users : u.id = input.user_id) =>
              /\ createUserInkAssignmentRun(input).outcome = "UserNotFound"
              /\ createUserInkAssignmentRun(input).assignments = assignments
        /\ ((\E u \in users : u.id = input.user_id) /\ input.ink_type_id \notin inkTypes) =>
              /\ createUserInkAssignmentRun(input).outcome = "InkTypeNotFound"
              /\ createUserInkAssignmentRun(input).assignments = assignments

\* A grant has been refused for want of the account while assignments of
\* an existing account are stored.
C17_Witness ==
    /\ result = [op |-> "createUserInkAssignment", outcome |-> "UserNotFound"]
    /\ assignments # {}

\* C18: removing an assignment id that no row has fails with NotFound and
\* changes nothing; otherwise the call returns true, deletes exactly the
\* row with that id, leaves every other row as it was, and the row is in no
\* account's assignment list any more.
C18_Revoke ==
    \A id \in 1..(MaxAssignmentId + 1) :
        LET run == removeUserInkAssignmentRun(id) IN
        IF ~ \E x \in assignments : x.id = id
        THEN run.outcome = "NotFound" /\ run.assignments = assignments
        ELSE /\ run.outcome = "ok"
             /\ run.assignments = {x \in assignments : x.id # id}
             /\ Cardinality(run.assignments) = Cardinality(assignments) - 1
             /\ \A u \in UserIdInputs :
                  ~ \E x \in getUserInkAssignments(run.assignments, users, inkTypes, u) :
                       x.id = id

\* An assignment has been removed while the account keeps another one.
C18_Witness ==
    /\ result = [op |-> "removeUserInkAssignment", outcome |-> "ok"]
    /\ assignments # {}
    /\ serial.assignments = MaxAssignmentId + 1

\* C19: updating the cap of an assignment id that no row has fails with
\* NotFound and changes nothing; otherwise the row with that id gets the
\* new cap and keeps its id, account and ink type, and every other row is
\* unchanged.
C19_UpdateMaxQuantity ==
    \A id \in 1..(MaxAssignmentId + 1), q \in Quantities :
        LET run == updateUserInkAssignmentRun(id, q) IN
        IF ~ \E x \in assignments : x.id = id
        THEN run.outcome = "NotFound" /\ run.assignments = assignments
        ELSE /\ run.outcome = "ok"
             /\ \A x \in assignments :
                  IF x.id = id
                  THEN [id |-> x.id, user_id |-> x.user_id, ink_type_id |-> x.ink_type_id,
                        max_quantity_per_request |-> q] \in run.assignments
                  ELSE x \in run.assignments
             /\ Cardinality(run.assignments) = Cardinality(assignments)

\* A cap has been updated while the account holds two assignments with
\* different caps.
C19_Witness ==
    /\ result = [op |-> "updateUserInkAssignment", outcome |-> "ok"]
    /\ \E x \in assignments, y \in assignments :
         /\ x.user_id = y.user_id
         /\ x.id # y.id
         /\ x.max_quantity_per_request # y.max_quantity_per_request

\* The ids of the requests getPendingInkRequests returns from a request table.
PendingIds(reqs) == {r.id : r \in getPendingInkRequests(reqs, users, inkTypes)}

\* C20: getPendingInkRequests returns exactly the stored requests whose
\* status is pending.  A successful submission adds its request to the list
\* and changes no other entry; a successful review takes its request off
\* the list; a failed review leaves the list as it was; and no submission
\* or review puts back a request that is off the list.
C20_ListPending ==
    /\ getPendingInkRequests(requests, users, inkTypes) =
          {requests[i] : i \in {j \in DOMAIN requests : requests[j].status = "pending"}}
    /\ \A u \in UserIdInputs, input \in RequestInputs(TextInputs) :
          \A run \in createInkRequestRuns(u, input) :
             IF run.outcome = "ok"
             THEN PendingIds(run.requests) = PendingIds(requests) \cup {Len(run.requests)}
             ELSE PendingIds(run.requests) = PendingIds(requests)
    /\ \A a \in UserIdInputs, input \in ReviewInputs(TextInputs) :
          \A run \in reviewInkRequestRuns(a, input) :
             IF run.outcome = "ok"
             THEN /\ input.request_id \in PendingIds(requests)
                  /\ PendingIds(run.requests) = PendingIds(requests) \ {input.request_id}
             ELSE PendingIds(run.requests) = PendingIds(requests)

\* A successful review has emptied the list of pending requests.
C20_Witness ==
    /\ result = [op |-> "reviewInkRequest", outcome |-> "ok"]
    /\ requests # <<>>
    /\ PendingIds(requests) = {}
    /\ \E i \in DOMAIN requests : requests[i].status = "rejected"

\* C11: in every reachable state there is at most one assignment per
\* (account, ink type) pair, under every interleaving of the statements of
\* concurrent grants with removals and cap updates.
C11_OneAssignmentPerPair ==
    \A x \in assignments, y \in assignments :
        (x.user_id = y.user_id /\ x.ink_type_id = y.ink_type_id) => x = y

\* A review call on a stored pending request whose ink type has no stock row.
OnPendingWithoutStock(input) == OnPending(input) /\ StockRowsFor(input) = {}

\* C13 as stated: on a pending request whose ink type has no stock row, an
\* approving review fails with NotFound (no stock information) and leaves
\* the request pending, and a rejecting review, whoever the reviewer id is,
\* succeeds.
C13_AnyReviewer ==
    \A a \in UserIdInputs, input \in ReviewInputs(TextInputs) :
        OnPendingWithoutStock(input) =>
            \A run \in reviewInkRequestRuns(a, input) :
                IF input.status = "approved"
                THEN /\ run.outcome = "NoStockInformation"
                     /\ run.requests[input.request_id].status = "pending"
                ELSE /\ run.outcome = "ok"
                     /\ run.requests[input.request_id].status = "rejected"

\* C13 (amended): on a pending request whose ink type has no stock row, an
\* approving review fails with NotFound (no stock information) and leaves
\* the request table and the stock unchanged, the request pending; a
\* rejecting review made with the id of an existing account needs no stock
\* row and succeeds, making the request rejected.
C13_NoStockInformation ==
    \A a \in UserIdInputs, input \in ReviewInputs(TextInputs) :
        OnPendingWithoutStock(input) =>
            /\ reviewInkRequestRuns(a, input) # {}
            /\ \A run \in reviewInkRequestRuns(a, input) :
                 IF input.status = "approved"
                 THEN /\ run.outcome = "NoStockInformation"
                      /\ run.requests = requests
                      /\ run.stock = stock
                      /\ run.requests[input.request_id].status = "pending"
                 ELSE a \in {u.id : u \in users} =>
                         /\ run.outcome = "ok"
                         /\ run.requests[input.request_id].status = "rejected"

\* An approval has failed for want of a stock row: the request is pending
\* and its ink type, still stored, has no stock row.
C13_Witness ==
    /\ result = [op |-> "reviewInkRequest", outcome |-> "NoStockInformation"]
    /\ \E i \in DOMAIN requests :
         /\ requests[i].status = "pending"
         /\ requests[i].ink_type_id \in inkTypes
         /\ ~ \E s \in stock : s.ink_type_id = requests[i].ink_type_id

\* C15: in every reachable state each stored ink type has exactly one
\* stock row, after any sequence of createInkType, deleteInkType,
\* updateInkStock, grants, submissions and reviews.
C15_OneStockPerInkType ==
    \A t \in inkTypes : Cardinality({s \in stock : s.ink_type_id = t}) = 1

\* C16: the current_stock of every stock row is non-negative in every
\* reachable state, under every interleaving of the statements of
\* concurrent reviews with manual adjustments, from non-negative stock.
C16_StockNonNegative ==
    \A s \in stock : s.current_stock >= 0

\* Two approvals of different requests have read the same stock row and
\* have both written the stock.
C16_Witness ==
    \E p \in Procs, q \in Procs :
        /\ p # q
        /\ calls[p].wroteStock /\ calls[q].wroteStock
        /\ calls[p].outcome = "ok" /\ calls[q].outcome = "ok"
        /\ calls[p].input.request_id # calls[q].input.request_id
        /\ calls[p].stockRow = calls[q].stockRow
        /\ calls[p].approvedQuantity + calls[q].approvedQuantity >
              calls[p].stockRow.current_stock

\* C24: registerUser stores a new account under the username and email
\* given, and rejects, storing nothing, a registration whose email or whose
\* username a stored account already has; no two stored accounts share a
\* username or an email.
C24_RegisterUser ==
    /\ \A u \in users, v \in users :
          (u.username = v.username \/ u.email = v.email) => u = v
    /\ \A input \in UserInputs :
          IF \E u \in users : u.username = input.username \/ u.email = input.email
          THEN /\ registerUserRun(input).outcome # "ok"
               /\ registerUserRun(input).users = users
          ELSE /\ registerUserRun(input).outcome = "ok"
               /\ \E u \in registerUserRun(input).users :
                    /\ u.username = input.username
                    /\ u.email = input.email
                    /\ u.role = input.role

\* C22: updateInkStock on a stored ink type succeeds and leaves exactly one
\* stock row for that type, holding the current and minimum values given,
\* whether the type had a stock row before the call or none, and leaves the
\* rows of the other types as they were; on an ink type id that is not
\* stored it fails and creates no row.
C22_UpdateInkStock ==
    \A input \in StockLevelInputs :
        LET run == updateInkStockRun(input) IN
        IF input.ink_type_id \in inkTypes
        THEN /\ run.outcome = "ok"
             /\ Cardinality({s \in run.stock : s.ink_type_id = input.ink_type_id}) = 1
             /\ \A s \in run.stock :
                  s.ink_type_id = input.ink_type_id =>
                     /\ s.current_stock = input.current_stock
                     /\ s.minimum_stock = input.minimum_stock
             /\ {s \in run.stock : s.ink_type_id # input.ink_type_id} =
                  {s \in stock : s.ink_type_id # input.ink_type_id}
        ELSE /\ run.outcome # "ok"
             /\ run.stock = stock

\* A level has been set for a stored ink type whose stock row had been
\* deleted: the row it has now was inserted by the call.
C22_Witness ==
    /\ result = [op |-> "updateInkStock", outcome |-> "ok"]
    /\ \E s \in stock : s.ink_type_id = 1 /\ s.id > 2 /\ s.minimum_stock >= 1

\* C23: getLowStockAlerts returns exactly the stock rows whose current
\* stock is strictly less than their minimum stock; a row whose current
\* stock equals its minimum is not returned; and after updateInkStock the
\* row of the type is returned exactly when the current value given is
\* strictly less than the minimum given.
C23_LowStockAlerts ==
    /\ getLowStockAlerts(stock, inkTypes) =
          {s \in stock : s.current_stock < s.minimum_stock}
    /\ \A s \in stock :
          s.current_stock = s.minimum_stock => s \notin getLowStockAlerts(stock, inkTypes)
    /\ \A input \in StockLevelInputs :
          updateInkStockRun(input).outcome = "ok" =>
             ((\E s \in getLowStockAlerts(updateInkStockRun(input).stock, inkTypes) :
                  s.ink_type_id = input.ink_type_id)
              <=> input.current_stock < input.minimum_stock)

\* The low-stock list has been read with one row below its minimum and
\* another, with a positive minimum, exactly at it.
C23_Witness ==
    /\ result = [op |-> "getLowStockAlerts", outcome |-> "alerts"]
    /\ \E s \in stock : s.current_stock < s.minimum_stock
    /\ \E s \in stock : s.current_stock = s.minimum_stock /\ s.minimum_stock >= 1

\* C25: in every reachable state, under every interleaving of submissions
\* and of the statements of concurrent reviews, each stored request is
\* pending exactly when its reviewed_by_admin_id and reviewed_at are null,
\* has a non-null approved_quantity when it is approved, and a null
\* approved_quantity when it is pending or rejected.
C25_RequestFields ==
    \A i \in DOMAIN requests :
        /\ (requests[i].status = "pending") <=>
              (requests[i].reviewed_by_admin_id = NULL /\ requests[i].reviewed_at = NULLTEXT)
        /\ (requests[i].status = "pending") <=>
              (requests[i].reviewed_by_admin_id = NULL \/ requests[i].reviewed_at = NULLTEXT)
        /\ requests[i].status = "approved" => requests[i].approved_quantity # NULL
        /\ requests[i].status \in {"pending", "rejected"} =>
              requests[i].approved_quantity = NULL

\* Two concurrent reviews of the same request, one approving and one
\* rejecting, have both succeeded.
C25_Witness ==
    \E p \in Procs, q \in Procs :
        /\ calls[p].outcome = "ok" /\ calls[q].outcome = "ok"
        /\ calls[p].input.request_id = calls[q].input.request_id
        /\ calls[p].input.status = "approved"
        /\ calls[q].input.status = "rejected"

\* The stock InitConc gives an ink type, and the sum of approved_quantity
\* over the approved requests i..Len(requests) of an ink type.
InitialStock(t) == IF t = 1 THEN MaxQty ELSE 0

RECURSIVE ApprovedFrom(_, _)
ApprovedFrom(i, t) ==
    IF i > Len(requests) THEN 0
    ELSE (IF requests[i].ink_type_id = t /\ requests[i].status = "approved"
          THEN requests[i].approved_quantity ELSE 0) + ApprovedFrom(i + 1, t)

\* C27: with the stock changed by reviews only, in every state where no
\* review is in progress and the reviews made were of different requests,
\* the initial stock of each ink type minus its current stock equals the
\* sum of approved_quantity over the approved requests of the type, under
\* every interleaving of the statements of the reviews.
C27_StockConservation ==
    (/\ \A p \in Procs : calls[p].pc \in {"idle", "done"}
     /\ \A p \in Procs, q \in Procs :
          (p # q /\ calls[p].pc = "done" /\ calls[q].pc = "done") =>
             calls[p].input.request_id # calls[q].input.request_id) =>
        \A s \in stock :
            InitialStock(s.ink_type_id) - s.current_stock = ApprovedFrom(1, s.ink_type_id)

\* ------------------------------------------------------------------ C21
\* C21: getInkRequestById never fails for absence: for an id no request has
\* it returns null, for a stored request it returns that request with the
\* requester's username; reviewInkRequest for an absent request id, and
\* removeUserInkAssignment and updateUserInkAssignment for an absent
\* assignment id, fail with NotFound.
C21_LookupReturnsNull ==
    /\ \A id \in 1..(MaxRequests + 1) :
         /\ getInkRequestByIdRuns(id) # {}
         /\ \A run \in getInkRequestByIdRuns(id) :
              IF id \in DOMAIN requests
              THEN /\ run.outcome = "found"
                   /\ \A v \in run.value :
                        /\ v.request = requests[id]
                        /\ v.user_username =
                             {u.username : u \in {w \in users : w.id = requests[id].user_id}}
                   /\ run.value # {}
              ELSE run.outcome = "null" /\ run.value = {}
    /\ \A a \in UserIdInputs, input \in ReviewInputs(TextInputs) :
         (input.request_id \notin DOMAIN requests) =>
             \A run \in reviewInkRequestRuns(a, input) : run.outcome = "NotFound"
    /\ \A id \in 1..(MaxAssignmentId + 1), q \in Quantities :
         (~ \E x \in assignments : x.id = id) =>
             /\ removeUserInkAssignmentRun(id).outcome = "NotFound"
             /\ updateUserInkAssignmentRun(id, q).outcome = "NotFound"

\* A lookup of an id that no request has returned null while another
\* request is stored.
C21_Witness ==
    /\ result = [op |-> "getInkRequestById", outcome |-> "null"]
    /\ Len(requests) >= 1

\* ------------------------------------------------------------------ C29
\* The case of C29: an approving review of a pending request with an
\* explicit quantity that is above the requested quantity or above the cap
\* of an assignment of the request's pair, and that every stock row of the
\* ink type covers.
ApprovalAboveQuota(input) ==
    /\ input.status = "approved"
    /\ OnPending(input)
    /\ input.approved_quantity # UNDEFINED
    /\ \/ input.approved_quantity > requests[input.request_id].requested_quantity
       \/ \E x \in SelectAssignment(assignments, requests[input.request_id].user_id,
                                    requests[input.request_id].ink_type_id) :
            input.approved_quantity > x.max_quantity_per_request
    /\ StockRowsFor(input) # {}
    /\ \A s \in StockRowsFor(input) : input.approved_quantity <= s.current_stock

\* C29 as stated: every such review, whoever the reviewer id is, succeeds
\* and reduces the stock by the explicit quantity.
C29_AnyReviewer ==
    \A a \in UserIdInputs, input \in ReviewInputs(TextInputs) :
        ApprovalAboveQuota(input) =>
            \A run \in reviewInkRequestRuns(a, input) :
                /\ run.outcome = "ok"
                /\ StockReducedBy(run, input, input.approved_quantity)

\* C29 (amended): an approving review of a pending request made with the id
\* of an existing account, whose explicit approved quantity is larger than
\* the requested quantity or than the requester's assignment cap, succeeds
\* when the quantity does not exceed the current stock, and reduces the
\* stock by that quantity, which it stores as approved_quantity.
C29_StockIsTheOnlyBound ==
    \A a \in UserIdInputs, input \in ReviewInputs(TextInputs) :
        (ApprovalAboveQuota(input) /\ a \in {u.id : u \in users}) =>
            \A run \in reviewInkRequestRuns(a, input) :
                /\ run.outcome = "ok"
                /\ StockReducedBy(run, input, input.approved_quantity)
                /\ run.requests[input.request_id].approved_quantity =
                     input.approved_quantity

\* A request has been approved for more than was requested and more than
\* the cap of the requester's assignment.
C29_Witness ==
    /\ result = [op |-> "reviewInkRequest", outcome |-> "ok"]
    /\ \E i \in DOMAIN requests :
         /\ requests[i].status = "approved"
         /\ requests[i].approved_quantity > requests[i].requested_quantity
         /\ \E x \in assignments :
              /\ x.user_id = requests[i].user_id
              /\ x.ink_type_id = requests[i].ink_type_id
              /\ x.max_quantity_per_request < requests[i].approved_quantity

\* ------------------------------------------------------------------ C30
\* C30: a submission for a pair without an assignment fails with
\* PermissionDenied and a submission for a pair with one fails with
\* QuotaExceeded exactly when the quantity is above the assignment's current
\* cap; a pending request whose pair has no assignment, or a cap below the
\* requested quantity, is still approved by a review made by an existing
\* account when the stock covers it.
C30_CheckedOnlyAtSubmit ==
    /\ \A u \in UserIdInputs, input \in RequestInputs(TextInputs) :
         \A run \in createInkRequestRuns(u, input) :
            IF SelectAssignment(assignments, u, input.ink_type_id) = {}
            THEN run.outcome = "PermissionDenied"
            ELSE \A x \in SelectAssignment(assignments, u, input.ink_type_id) :
                    (input.requested_quantity > x.max_quantity_per_request) =>
                        run.outcome \in {"QuotaExceeded", "PermissionDenied"}
    /\ \A u \in UserIdInputs, input \in RequestInputs(TextInputs) :
         (/\ SelectAssignment(assignments, u, input.ink_type_id) # {}
          /\ \A x \in SelectAssignment(assignments, u, input.ink_type_id) :
                input.requested_quantity <= x.max_quantity_per_request) =>
             \A run \in createInkRequestRuns(u, input) :
                 run.outcome \notin {"QuotaExceeded", "PermissionDenied"}
    /\ \A a \in UserIdInputs, input \in ReviewInputs(TextInputs) :
         (/\ ApprovalCovered(input)
          /\ a \in {u.id : u \in users}
          /\ \A x \in SelectAssignment(assignments, requests[input.request_id].user_id,
                                       requests[input.request_id].ink_type_id) :
                x.max_quantity_per_request < requests[input.request_id].requested_quantity) =>
             \A run \in reviewInkRequestRuns(a, input) :
                 /\ run.outcome = "ok"
                 /\ run.requests[input.request_id].status = "approved"

\* A request has been approved after the assignment of its pair was removed.
C30_Witness ==
    /\ result = [op |-> "reviewInkRequest", outcome |-> "ok"]
    /\ \E i \in DOMAIN requests :
         /\ requests[i].status = "approved"
         /\ SelectAssignment(assignments, requests[i].user_id,
                             requests[i].ink_type_id) = {}

\* ------------------------------------------------------------------ C26
\* C26: only administrators review: every request whose status is approved
\* or rejected has a reviewed_by_admin_id that references an account of role
\* admin, and a review made with the id of an account of role user changes
\* neither the requests nor the stock.
C26_OnlyAdministratorsReview ==
    /\ \A i \in DOMAIN requests :
         (requests[i].status \in {"approved", "rejected"}) =>
             \E u \in users :
                 u.id = requests[i].reviewed_by_admin_id /\ u.role = "admin"
    /\ \A a \in {u.id : u \in {v \in users : v.role = "user"}},
          input \in ReviewInputs(TextInputs) :
         \A run \in reviewInkRequestRuns(a, input) :
             run.requests = requests /\ run.stock = stock

\* ------------------------------------------------------------------ C28
\* C28: no step removes a request, and no step changes the requester, the
\* ink type, the requested quantity, the reason or the request timestamp of
\* a stored request.
C28_RequestsOnlyGrow ==
    [][\A i \in DOMAIN requests :
          /\ i \in DOMAIN requests'
          /\ requests'[i].id = requests[i].id
          /\ requests'[i].user_id = requests[i].user_id
          /\ requests'[i].ink_type_id = requests[i].ink_type_id
          /\ requests'[i].requested_quantity = requests[i].requested_quantity
          /\ requests'[i].request_reason = requests[i].request_reason
          /\ requests'[i].requested_at = requests[i].requested_at]_vars

\* A review has written a request: it is rejected, with the reviewer and
\* the notes stored, and its requested quantity and reason are still there.
C28_Witness ==
    /\ result = [op |-> "reviewInkRequest", outcome |-> "ok"]
    /\ \E i \in DOMAIN requests :
         /\ requests[i].status = "rejected"
         /\ requests[i].reviewed_by_admin_id = 2
         /\ requests[i].admin_notes = "text"
         /\ requests[i].requested_quantity >= 1
         /\ requests[i].request_reason = "text"

====
